---------------------------- MODULE Spec2Model ----------------------------
(***************************************************************************)
(* A model of drake's RgbdSensor and RgbdSensorDiscrete                    *)
(* (systems/sensors/rgbd_sensor.cc).                                       *)
(*                                                                         *)
(*   Spec         RgbdSensorDiscrete: construction, sampling ticks, time   *)
(*                advance and geometry changes.                            *)
(*   SpecSensor   RgbdSensor: evaluation of its five output ports.         *)
(*   SpecConvert  RgbdSensor::ConvertDepth32FTo16U as a pure function of   *)
(*                IEEE-754 binary32 depth images.                          *)
(***************************************************************************)
EXTENDS Integers, Sequences, FiniteSets, TLC

VARIABLES
    \* RgbdSensor members (rgbd_sensor.cc 91-94)
    parent_frame_id, X_PB, color_camera, depth_camera,
    \* RgbdSensorDiscrete: whether construction succeeded, its arguments, and
    \* the diagram it builds: the exported input and output ports, and the
    \* period and held value of every ZeroOrderHold stage
    status, period, render_label_image, inputs, exports, zoh_period, zoh_state,
    \* the context: whether geometry_query is connected, the geometry state
    \* behind it, the time, and whether the periodic updates due at this time
    \* have been handled
    connected, geom, now, ticked,
    \* history: the geometry state the most recent tick sampled, and its time
    tick_geom, last_tick,
    \* the most recent evaluation of an output port
    eval,
    \* ConvertDepth32FTo16U: its input, its output, the output re-expressed
    \* in metres, the conversion of that, and the position in this sequence
    d32, d16, d32_again, d16_again, cpc

vars == <<parent_frame_id, X_PB, color_camera, depth_camera, status, period,
          render_label_image, inputs, exports, zoh_period, zoh_state,
          connected, geom, now, ticked, tick_geom, last_tick, eval,
          d32, d16, d32_again, d16_again, cpc>>

sensorVars == <<parent_frame_id, X_PB, color_camera, depth_camera>>
diagramVars == <<status, period, render_label_image, inputs, exports, zoh_period>>
convertVars == <<d32, d16, d32_again, d16_again, cpc>>

-----------------------------------------------------------------------------
(* Bounds *)

\* translations of a rigid transform are taken modulo TransMod
TransMod == 3
\* frames other than the world frame: 1..NumFrames
NumFrames == 1
\* scene contents the geometry state can hold: 0..NumScenes-1
NumScenes == 2
\* sampling periods offered to the constructor: -1..MaxPeriod
MaxPeriod == 2
\* time advances in unit steps up to MaxTime
MaxTime == 4
\* depth inputs include the floats around 1..MaxMilli millimetres
MaxMilli == 40
\* and those around (65535 - CeilSpan)..(65535 + CeilSpan) millimetres
CeilSpan == 3

-----------------------------------------------------------------------------
(* math::RigidTransformd, reduced to one dimension: x |-> (+/-)x + trans,  *)
(* a non-commutative group under composition.                              *)

Transforms == [rot : {0, 1}, trans : 0 .. TransMod - 1]

Identity == [rot |-> 0, trans |-> 0]

\* operator* of RigidTransform: (A * B)(x) = A(B(x))
Compose(A, B) ==
    [rot   |-> (A.rot + B.rot) % 2,
     trans |-> (A.trans + (IF A.rot = 0 THEN B.trans ELSE TransMod - B.trans))
                 % TransMod]

-----------------------------------------------------------------------------
(* IEEE-754 binary32 values >= 0: zero, +infinity, or m * 2^-k with        *)
(* 2^23 <= m < 2^24.  All arithmetic below stays under 2^31: 1000 = 8*125, *)
(* so m * 1000 / 2^k is computed as m * 125 / 2^(k-3).                     *)

RECURSIVE Pow2(_)
Pow2(n) == IF n <= 0 THEN 1 ELSE 2 * Pow2(n - 1)

FZero == [kind |-> "zero", m |-> 0, k |-> 0]
FInf == [kind |-> "inf", m |-> 0, k |-> 0]
Finite(m, k) == [kind |-> "finite", m |-> m, k |-> k]

\* a < b on floats
FLess(a, b) ==
    CASE a.kind = "inf" -> FALSE
      [] b.kind = "inf" -> TRUE
      [] b.kind = "zero" -> FALSE
      [] a.kind = "zero" -> TRUE
      [] OTHER -> \/ a.k > b.k
                  \/ a.k = b.k /\ a.m < b.m

\* the least j with n * 2^j >= 2^23 * 125, for n >= 1
RECURSIVE Shift(_, _)
Shift(n, j) == IF n * Pow2(j) >= Pow2(23) * 125 THEN j ELSE Shift(n, j + 1)

\* n / 1000. narrowed to float (round to nearest; 125 is odd, so no ties)
Float32OfMilli(n) ==
    IF n = 0 THEN FZero
    ELSE LET j == Shift(n, 0)
             num == n * Pow2(j)
             q == num \div 125
             m == IF 2 * (num % 125) > 125 THEN q + 1 ELSE q
         IN  IF m = Pow2(24) THEN Finite(Pow2(23), j + 2) ELSE Finite(m, j + 3)

\* the neighbouring floats of a finite float
NextUp(f) ==
    IF f.m + 1 = Pow2(24) THEN Finite(Pow2(23), f.k - 1) ELSE Finite(f.m + 1, f.k)
NextDown(f) ==
    IF f.m = Pow2(23) THEN Finite(Pow2(24) - 1, f.k + 1) ELSE Finite(f.m - 1, f.k)

\* static_cast<double>(f) * 1000, truncated toward zero; the product of a
\* 24-bit and a 10-bit number is exact in a double
TruncMilli(f) ==
    CASE f.kind = "zero" -> 0
      [] f.k - 3 >= 31 -> 0
      [] OTHER -> (f.m * 125) \div Pow2(f.k - 3)


-----------------------------------------------------------------------------
(* Images: one value per pixel (w, h), 0 <= w < width, 0 <= h < height.    *)

Pixels(width, height) == (0 .. width - 1) \X (0 .. height - 1)

\* Image<kind>(width, height): every channel zero
BlankImage(width, height) == [p \in Pixels(width, height) |-> 0]
BlankDepth32F(width, height) == [p \in Pixels(width, height) |-> FZero]

-----------------------------------------------------------------------------
(* RgbdSensor::ConvertDepth32FTo16U                                        *)

uint16_max == 65535

\* const float kDepth16UOverflowDistance = uint16_max / 1000.;
kDepth16UOverflowDistance == Float32OfMilli(uint16_max)

\* std::min(a, b): b if b < a, else a
StdMin(a, b) == IF FLess(b, a) THEN b ELSE a

\* static_cast<uint16_t>(v) of a value inside the range of uint16_t
StaticCastUint16(v) == v % (uint16_max + 1)

\* a faulty variant: the clamp is dropped and the cast wraps
ConvertPixelWrap(x) ==
    IF x.kind = "inf" THEN 0 ELSE StaticCastUint16(TruncMilli(x))

\* a faulty variant: the product is rounded to the nearest integer, not truncated
ConvertPixelRound(x) ==
    LET dist == StdMin(x, kDepth16UOverflowDistance)
        j == dist.k - 3
        r == IF dist.kind = "zero" \/ j >= 31 THEN 0
             ELSE (dist.m * 125) % Pow2(j)
    IN  StaticCastUint16(TruncMilli(dist)
                         + (IF j >= 1 /\ j < 31 /\ r >= Pow2(j - 1) THEN 1 ELSE 0))

\* the loop body: dist = min(d32.at(w, h)[0], kDepth16UOverflowDistance);
\* d16->at(w, h)[0] = static_cast<uint16_t>(dist * 1000)
ConvertPixel(x) ==
    LET dist == StdMin(x, kDepth16UOverflowDistance)
    IN  StaticCastUint16(TruncMilli(dist))

\* the loops run over the pixels of d16, the output image
ConvertDepth32FTo16U(in32, out16) == [p \in DOMAIN out16 |-> ConvertPixel(in32[p])]

-----------------------------------------------------------------------------
(* Frames, geometry state and the geometry query service                   *)

\* SceneGraph<double>::world_frame_id()
world_frame_id == 0

Frames == 0 .. NumFrames
MovingFrames == 1 .. NumFrames

\* a geometry state: the world pose of every moving frame, and the scene
Geometries == [X_WF : [MovingFrames -> Transforms], scene : 0 .. NumScenes - 1]

\* the value of tick_geom while no tick has sampled anything
NoGeometry == [X_WF |-> [f \in MovingFrames |-> Identity], scene |-> 0]

\* QueryObject::X_WF(frame)
X_WF(query, frame) ==
    IF frame = world_frame_id THEN Identity ELSE query.X_WF[frame]

PoseCode(X) == X.rot * TransMod + X.trans

\* depths a renderer returns: too far (+inf), too near (0), and finite ones,
\* including one past the 16-bit ceiling
DepthSamples ==
    <<FInf, Float32OfMilli(1500), Float32OfMilli(5000), Float32OfMilli(9),
      FZero, Float32OfMilli(100000)>>

\* the camera's world pose the geometry service renders from
X_WC(query, call) == Compose(X_WF(query, call.parent_frame), call.X_PC)

\* QueryObject::RenderColorImage / RenderDepthImage / RenderLabelImage: the
\* image is a deterministic function of the scene and the camera's world
\* pose, with the dimensions of the camera handed over
RenderColorImage(query, call) ==
    [p \in Pixels(call.camera.width, call.camera.height) |->
        1 + query.scene * 2 * TransMod + PoseCode(X_WC(query, call))]

RenderLabelImage(query, call) ==
    [p \in Pixels(call.camera.width, call.camera.height) |->
        1000 + query.scene * 2 * TransMod + PoseCode(X_WC(query, call))]

RenderDepthImage(query, call) ==
    [p \in Pixels(call.camera.width, call.camera.height) |->
        DepthSamples[((query.scene + PoseCode(X_WC(query, call)) + p[1] + p[2])
                        % Len(DepthSamples)) + 1]]

-----------------------------------------------------------------------------
(* RgbdSensor                                                              *)

\* sensor_pose_in_camera_body() of the two cameras
Offsets == {Identity, [rot |-> 1, trans |-> 1]}

ColorCameras ==
    [renderer_name : {"renderer"}, width : {2}, height : {1}, fov_y : {"fov_y"},
     X_BS : Offsets, show_window : BOOLEAN]

DepthCameras ==
    [renderer_name : {"renderer"}, width : {1}, height : {2}, fov_y : {"fov_y"},
     X_BS : Offsets, min_depth : {"min_depth"}, max_depth : {"max_depth"}]

\* the context of an evaluation
Context == [connected |-> connected, geom |-> geom]

Fatal == [ok |-> FALSE, value |-> "none", call |-> "none"]
Ok(value, call) == [ok |-> TRUE, value |-> value, call |-> call]

\* a faulty variant: an unconnected port evaluates to a default geometry state
get_query_object_default(ctx) ==
    [ok |-> TRUE,
     query |-> IF ctx.connected THEN ctx.geom
               ELSE [X_WF |-> [f \in MovingFrames |-> Identity], scene |-> 0]]

\* query_object_input_port().Eval<QueryObject<double>>(context): throws when
\* the port is not connected
get_query_object(ctx) ==
    IF ctx.connected THEN [ok |-> TRUE, query |-> ctx.geom]
    ELSE [ok |-> FALSE, query |-> "none"]

\* a faulty variant: the pose handed over is the camera's world pose
ColorRenderCallWorld ==
    [op |-> "RenderColorImage",
     camera |-> [width |-> color_camera.width, height |-> color_camera.height,
                 fov_y |-> color_camera.fov_y,
                 renderer_name |-> color_camera.renderer_name],
     parent_frame |-> parent_frame_id,
     X_PC |-> Compose(Compose(X_WF(geom, parent_frame_id), X_PB),
                      color_camera.X_BS),
     show_window |-> color_camera.show_window]

\* the arguments of query_object.RenderColorImage(...) in CalcColorImage
ColorRenderCall ==
    [op |-> "RenderColorImage",
     camera |-> [width |-> color_camera.width, height |-> color_camera.height,
                 fov_y |-> color_camera.fov_y,
                 renderer_name |-> color_camera.renderer_name],
     parent_frame |-> parent_frame_id,
     X_PC |-> Compose(X_PB, color_camera.X_BS),
     show_window |-> color_camera.show_window]

\* the arguments of query_object.RenderDepthImage(...) in CalcDepthImage32F
DepthRenderCall ==
    [op |-> "RenderDepthImage",
     camera |-> [width |-> depth_camera.width, height |-> depth_camera.height,
                 fov_y |-> depth_camera.fov_y,
                 renderer_name |-> depth_camera.renderer_name,
                 z_near |-> depth_camera.min_depth,
                 z_far |-> depth_camera.max_depth],
     parent_frame |-> parent_frame_id,
     X_PC |-> Compose(X_PB, depth_camera.X_BS)]

\* the arguments of query_object.RenderLabelImage(...) in CalcLabelImage
LabelRenderCall ==
    [op |-> "RenderLabelImage",
     camera |-> [width |-> color_camera.width, height |-> color_camera.height,
                 fov_y |-> color_camera.fov_y,
                 renderer_name |-> color_camera.renderer_name],
     parent_frame |-> parent_frame_id,
     X_PC |-> Compose(X_PB, color_camera.X_BS),
     show_window |-> color_camera.show_window]

CalcColorImage(ctx) ==
    LET q == get_query_object(ctx)
    IN  IF ~q.ok THEN Fatal
        ELSE Ok(RenderColorImage(q.query, ColorRenderCall), ColorRenderCall)

CalcDepthImage32F(ctx) ==
    LET q == get_query_object(ctx)
    IN  IF ~q.ok THEN Fatal
        ELSE Ok(RenderDepthImage(q.query, DepthRenderCall), DepthRenderCall)

\* depth32 has the dimensions of the output image; CalcDepthImage32F fills
\* it, ConvertDepth32FTo16U converts it
CalcDepthImage16U(ctx) ==
    LET depth32 == CalcDepthImage32F(ctx)
    IN  IF ~depth32.ok THEN Fatal
        ELSE Ok(ConvertDepth32FTo16U(depth32.value,
                    BlankImage(depth_camera.width, depth_camera.height)),
                depth32.call)

CalcLabelImage(ctx) ==
    LET q == get_query_object(ctx)
    IN  IF ~q.ok THEN Fatal
        ELSE Ok(RenderLabelImage(q.query, LabelRenderCall), LabelRenderCall)

\* pose_vector->set_translation(...); pose_vector->set_rotation(...)
PoseVector(X) == [translation |-> X.trans, rotation |-> X.rot]

\* a faulty variant: the composition in the other order
CalcX_WB_swapped(ctx) ==
    IF parent_frame_id = world_frame_id THEN Ok(PoseVector(X_PB), "none")
    ELSE LET q == get_query_object(ctx)
         IN  IF ~q.ok THEN Fatal
             ELSE Ok(PoseVector(Compose(X_PB, X_WF(q.query, parent_frame_id))),
                     "none")

CalcX_WB(ctx) ==
    IF parent_frame_id = world_frame_id THEN Ok(PoseVector(X_PB), "none")
    ELSE LET q == get_query_object(ctx)
         IN  IF ~q.ok THEN Fatal
             ELSE Ok(PoseVector(Compose(X_WF(q.query, parent_frame_id), X_PB)),
                     "none")

\* the output ports declared by the constructor, with their calculators
ImagePorts == {"color_image", "depth_image_32f", "depth_image_16u", "label_image"}
SensorPorts == ImagePorts \cup {"X_WB"}

CalcPort(port, ctx) ==
    CASE port = "color_image" -> CalcColorImage(ctx)
      [] port = "depth_image_32f" -> CalcDepthImage32F(ctx)
      [] port = "depth_image_16u" -> CalcDepthImage16U(ctx)
      [] port = "label_image" -> CalcLabelImage(ctx)
      [] port = "X_WB" -> CalcX_WB(ctx)

-----------------------------------------------------------------------------
(* RgbdSensorDiscrete: the diagram its constructor builds                  *)

\* a faulty variant: a hold is placed on the pose output too
StagesWithPose(flag) ==
    {"color_image", "depth_image_32f", "depth_image_16u", "X_WB"}
        \cup (IF flag THEN {"label_image"} ELSE {})

\* a faulty variant: the label stage is added whatever the flag
StagesAlwaysLabel(flag) ==
    {"color_image", "depth_image_32f", "depth_image_16u", "label_image"}

\* the ZeroOrderHold systems added, each named by the camera output port
\* connected to its input
Stages(flag) ==
    {"color_image", "depth_image_32f", "depth_image_16u"}
        \cup (IF flag THEN {"label_image"} ELSE {})

\* a faulty variant: the 16-bit depth stage is built with twice the period
StagePeriodsSkewed(p, flag) ==
    [s \in Stages(flag) |-> IF s = "depth_image_16u" THEN 2 * p ELSE p]

\* a faulty variant: the stages are built with a period of their own
StagePeriodsDefault(p, flag) == [s \in Stages(flag) |-> 1]

\* every stage is built with period_
StagePeriods(p, flag) == [s \in Stages(flag) |-> p]

\* a faulty variant: a hold starts from an image of ones
ModelValueOnes(s) ==
    IF s \in {"color_image", "label_image"}
    THEN [p \in Pixels(color_camera.width, color_camera.height) |-> 1]
    ELSE IF s = "depth_image_32f"
    THEN BlankDepth32F(depth_camera.width, depth_camera.height)
    ELSE [p \in Pixels(depth_camera.width, depth_camera.height) |-> 1]

\* the value each stage is built with: an image of the camera's dimensions
\* and nothing else
ModelValue(s) ==
    CASE s \in {"color_image", "label_image"} ->
            BlankImage(color_camera.width, color_camera.height)
      [] s = "depth_image_32f" ->
            BlankDepth32F(depth_camera.width, depth_camera.height)
      [] s = "depth_image_16u" ->
            BlankImage(depth_camera.width, depth_camera.height)
      [] OTHER -> PoseVector(Identity)

\* ZeroOrderHold's constructor declares a periodic update, which takes a
\* period > 0 and fails fatally otherwise
ZeroOrderHoldCtorOk(p) == p > 0

\* the exported output ports: the output of a stage where there is one, the
\* camera's own port for X_WB
Exports(flag) ==
    [port \in Stages(flag) \cup {"X_WB"} |->
        [system |-> IF port \in Stages(flag) THEN "zoh" ELSE "camera",
         port |-> port]]

\* RgbdSensorDiscrete::RgbdSensorDiscrete(camera, period, render_label_image)
DiscreteCtor(p, flag) ==
    LET periods == StagePeriods(p, flag)
    IN  IF \E s \in DOMAIN periods : ~ZeroOrderHoldCtorOk(periods[s])
        THEN [status |-> "ctor_fatal", inputs |-> {}, exports |-> << >>,
              zoh_period |-> << >>, zoh_state |-> << >>]
        ELSE [status |-> "built", inputs |-> {"geometry_query"},
              exports |-> Exports(flag), zoh_period |-> periods,
              zoh_state |-> [s \in DOMAIN periods |-> ModelValue(s)]]

\* an output port of the diagram, evaluated in the current context
DiscreteOutput(port) ==
    LET src == exports[port]
    IN  IF src.system = "camera" THEN CalcPort(src.port, Context)
        ELSE Ok(zoh_state[src.port], "none")

NoEval == [port |-> "none", out |-> Fatal]

-----------------------------------------------------------------------------
(* Spec: RgbdSensorDiscrete                                                *)

\* the geometry states offered to the discrete sensor
SampledGeometries == {g \in Geometries : \A f \in MovingFrames : g.X_WF[f] \in Offsets}

ConvertIdle ==
    /\ d32 = << >> /\ d16 = << >> /\ d32_again = << >> /\ d16_again = << >>
    /\ cpc = "idle"

Init ==
    /\ parent_frame_id \in Frames
    /\ X_PB = [rot |-> 1, trans |-> 1]
    /\ color_camera \in {c \in ColorCameras : c.X_BS = Identity /\ ~c.show_window}
    /\ depth_camera \in {c \in DepthCameras : c.X_BS # Identity}
    /\ period \in -1 .. MaxPeriod
    /\ render_label_image \in BOOLEAN
    /\ LET built == DiscreteCtor(period, render_label_image)
       IN  /\ status = built.status
           /\ inputs = built.inputs
           /\ exports = built.exports
           /\ zoh_period = built.zoh_period
           /\ zoh_state = built.zoh_state
    /\ connected \in BOOLEAN
    /\ geom \in SampledGeometries
    /\ now = 0
    /\ ticked = FALSE
    /\ tick_geom = NoGeometry
    /\ last_tick = -1
    /\ eval = NoEval
    /\ ConvertIdle

\* the stages whose periodic update is due at the current time
Due == {s \in DOMAIN zoh_period : now % zoh_period[s] = 0}

\* the updates due now are handled: each stage due latches the value at its
\* input, the camera output connected to it; an evaluation that fails ends
\* the run
Tick ==
    /\ status = "built"
    /\ ~ticked
    /\ Due # {}
    /\ IF \E s \in Due : ~CalcPort(s, Context).ok
       THEN /\ status' = "eval_fatal"
            /\ UNCHANGED <<zoh_state, ticked, tick_geom, last_tick>>
       ELSE /\ zoh_state' = [s \in DOMAIN zoh_state |->
                                IF s \in Due THEN CalcPort(s, Context).value
                                ELSE zoh_state[s]]
            /\ ticked' = TRUE
            /\ tick_geom' = geom
            /\ last_tick' = now
            /\ UNCHANGED status
    /\ eval' = NoEval
    /\ UNCHANGED <<sensorVars, period, render_label_image, inputs, exports,
                   zoh_period, connected, geom, now, convertVars>>

\* time advances once the updates due now are handled
AdvanceTime ==
    /\ status = "built"
    /\ now < MaxTime
    /\ Due = {} \/ ticked
    /\ now' = now + 1
    /\ ticked' = FALSE
    /\ eval' = NoEval
    /\ UNCHANGED <<sensorVars, diagramVars, zoh_state, connected, geom,
                   tick_geom, last_tick, convertVars>>

\* the mechanism moves or the scene changes: the context's geometry state
\* becomes g
SetGeometry(g) ==
    /\ status \in {"built", "sensor"}
    /\ g # geom
    /\ geom' = g
    /\ eval' = NoEval
    /\ UNCHANGED <<sensorVars, diagramVars, zoh_state, connected, now, ticked,
                   tick_geom, last_tick, convertVars>>

\* an output port of the diagram is evaluated
ReadOutput(port) ==
    /\ status = "built"
    /\ port \in DOMAIN exports
    /\ eval' = [port |-> port, out |-> DiscreteOutput(port)]
    /\ UNCHANGED <<sensorVars, diagramVars, zoh_state, connected, geom, now,
                   ticked, tick_geom, last_tick, convertVars>>

Next ==
    \/ Tick
    \/ AdvanceTime
    \/ \E c \in 0 .. NumScenes - 1 : SetGeometry([geom EXCEPT !.scene = c])
    \/ \E f \in MovingFrames, t \in Offsets :
          SetGeometry([geom EXCEPT !.X_WF[f] = t])
    \/ \E port \in SensorPorts : ReadOutput(port)

Spec == Init /\ [][Next]_vars

-----------------------------------------------------------------------------
(* SpecSensor: RgbdSensor on its own                                       *)

\* the parent-to-body transforms offered to the sensor
BodyPoses == {Identity, [rot |-> 0, trans |-> 1], [rot |-> 1, trans |-> 1]}

InitSensor ==
    /\ parent_frame_id \in Frames
    /\ X_PB \in BodyPoses
    /\ color_camera \in ColorCameras
    /\ depth_camera \in DepthCameras
    /\ status = "sensor"
    /\ period = 0
    /\ render_label_image = FALSE
    /\ inputs = {"geometry_query"}
    /\ exports = << >>
    /\ zoh_period = << >>
    /\ zoh_state = << >>
    /\ connected \in BOOLEAN
    /\ geom \in Geometries
    /\ now = 0
    /\ ticked = FALSE
    /\ tick_geom = NoGeometry
    /\ last_tick = -1
    /\ eval = NoEval
    /\ ConvertIdle

\* an output port of the sensor is evaluated
Eval(port) ==
    /\ status = "sensor"
    /\ eval' = [port |-> port, out |-> CalcPort(port, Context)]
    /\ UNCHANGED <<sensorVars, diagramVars, zoh_state, connected, geom, now,
                   ticked, tick_geom, last_tick, convertVars>>

NextSensor ==
    \/ \E port \in SensorPorts : Eval(port)
    \/ \E c \in 0 .. NumScenes - 1 : SetGeometry([geom EXCEPT !.scene = c])
    \/ \E f \in MovingFrames, t \in Transforms :
          SetGeometry([geom EXCEPT !.X_WF[f] = t])

SpecSensor == InitSensor /\ [][NextSensor]_vars

-----------------------------------------------------------------------------
(* SpecConvert: ConvertDepth32FTo16U on bounded depth images               *)

NearCeiling == (uint16_max - CeilSpan) .. (uint16_max + CeilSpan)

DepthInputs ==
    {FZero, FInf, Float32OfMilli(100000)}
        \cup {Float32OfMilli(n) : n \in 1 .. MaxMilli}
        \cup {NextUp(Float32OfMilli(n)) : n \in 1 .. MaxMilli}
        \cup {Float32OfMilli(n) : n \in NearCeiling}
        \cup {NextUp(Float32OfMilli(n)) : n \in NearCeiling}
        \cup {NextDown(Float32OfMilli(n)) : n \in NearCeiling}

ImageDims == {<<1, 1>>, <<2, 1>>}

InitConvert ==
    /\ parent_frame_id = world_frame_id
    /\ X_PB = Identity
    /\ color_camera \in {c \in ColorCameras : c.X_BS = Identity /\ ~c.show_window}
    /\ depth_camera \in {c \in DepthCameras : c.X_BS = Identity}
    /\ status = "convert"
    /\ period = 0
    /\ render_label_image = FALSE
    /\ inputs = {}
    /\ exports = << >>
    /\ zoh_period = << >>
    /\ zoh_state = << >>
    /\ connected = FALSE
    /\ geom \in {g \in SampledGeometries :
                    g.scene = 0 /\ \A f \in MovingFrames : g.X_WF[f] = Identity}
    /\ now = 0
    /\ ticked = FALSE
    /\ tick_geom = NoGeometry
    /\ last_tick = -1
    /\ eval = NoEval
    /\ \E dim \in ImageDims :
          /\ d32 \in [Pixels(dim[1], dim[2]) -> DepthInputs]
          /\ d16 = BlankImage(dim[1], dim[2])
    /\ d32_again = d32
    /\ d16_again = d16
    /\ cpc = "input"

\* ConvertDepth32FTo16U(d32, &d16)
Convert ==
    /\ cpc = "input"
    /\ d16' = ConvertDepth32FTo16U(d32, d16)
    /\ cpc' = "converted"
    /\ UNCHANGED <<sensorVars, diagramVars, zoh_state, connected, geom, now,
                   ticked, tick_geom, last_tick, eval, d32, d32_again, d16_again>>

\* the output is re-expressed in metres, m / 1000. stored in a float image,
\* and converted again
Requantize ==
    /\ cpc = "converted"
    /\ d32_again' = [p \in DOMAIN d16 |-> Float32OfMilli(d16[p])]
    /\ d16_again' = ConvertDepth32FTo16U(d32_again', d16)
    /\ cpc' = "requantized"
    /\ UNCHANGED <<sensorVars, diagramVars, zoh_state, connected, geom, now,
                   ticked, tick_geom, last_tick, eval, d32, d16>>

NextConvert == Convert \/ Requantize

SpecConvert == InitConvert /\ [][NextConvert]_vars

-----------------------------------------------------------------------------
(* Properties                                                              *)

\* the value the camera's output port s has on geometry state g
InnerOutput(s, g) == CalcPort(s, [connected |-> TRUE, geom |-> g]).value

\* the time of the most recent tick that has been handled, -1 if none
LastHandledTick ==
    IF ticked \/ now % period # 0 THEN (now \div period) * period
    ELSE IF now = 0 THEN -1 ELSE now - period

\* every stage holds what the most recent handled tick sampled, and the value
\* it was built with while no tick has been handled
HeldIsLatched ==
    /\ last_tick = LastHandledTick
    /\ \A s \in DOMAIN zoh_state :
          zoh_state[s] = IF last_tick < 0 THEN ModelValue(s)
                         ELSE InnerOutput(s, tick_geom)

\* C1 as stated: at every time t each held output equals the camera's output
\* as sampled at the most recent tick k*P <= t.
C1_Original ==
    status = "built" /\ connected =>
        /\ last_tick = (now \div period) * period
        /\ \A s \in DOMAIN zoh_state : zoh_state[s] = InnerOutput(s, tick_geom)

\* C1, amended: each held output (label included when present) changes only
\* at times that are integer multiples of P, and at every time equals the
\* camera's output as sampled by the most recent tick that has been handled;
\* until the tick at time zero is handled it is the blank image the stage
\* was built with.
C1_HeldChangesOnlyAtTicks ==
    /\ [](status = "built" => HeldIsLatched)
    /\ [][zoh_state' # zoh_state => now % period = 0 /\ now' = now]_vars

C1_Witness ==
    /\ status = "built"
    /\ render_label_image
    /\ period > 1
    /\ last_tick = period
    /\ now > last_tick
    /\ \A s \in DOMAIN zoh_state :
          /\ InnerOutput(s, geom) # zoh_state[s]
          /\ zoh_state[s] # ModelValue(s)

\* the pose the camera's X_WB port has on geometry state g
BodyWorldPose(g) ==
    PoseVector(IF parent_frame_id = world_frame_id THEN X_PB
               ELSE Compose(g.X_WF[parent_frame_id], X_PB))

\* C2: X_WB is X_PB unchanged when the parent frame is the world frame,
\* whatever the geometry state and without the query, and
\* X_WF(parent_frame_id) * X_PB, in that order, for every other parent frame.
C2_X_WB ==
    eval.port = "X_WB" =>
        /\ parent_frame_id = world_frame_id => eval.out.ok
        /\ eval.out.ok => eval.out.value = BodyWorldPose(geom)

C2_Witness ==
    /\ status = "sensor"
    /\ eval.port = "X_WB"
    /\ eval.out.ok
    /\ parent_frame_id # world_frame_id
    /\ Compose(geom.X_WF[parent_frame_id], X_PB)
          # Compose(X_PB, geom.X_WF[parent_frame_id])
    /\ eval.out.value # PoseVector(X_PB)

\* x >= 65535/1000 and n <= 1000 x < n + 1, in exact arithmetic on m * 2^-k
AtOrPastCeiling(x) ==
    \/ x.kind = "inf"
    \/ /\ x.kind = "finite"
       /\ \/ x.k - 3 < 14
          \/ x.k - 3 = 14 /\ x.m * 125 >= 65535 * Pow2(14)

IsWholeMillimetres(x, n) ==
    CASE x.kind = "zero" -> n = 0
      [] x.k - 3 >= 31 -> n = 0
      [] OTHER -> /\ n >= 0
                  /\ n * Pow2(x.k - 3) <= x.m * 125
                  /\ x.m * 125 - n * Pow2(x.k - 3) < Pow2(x.k - 3)

\* C3: the output has the dimensions of the input; a pixel of 65535/1000 m
\* or more becomes exactly 65535, any other non-negative pixel its whole
\* number of millimetres.
C3_Convert ==
    cpc # "input" /\ cpc # "idle" =>
        /\ DOMAIN d16 = DOMAIN d32
        /\ \A p \in DOMAIN d32 :
              IF AtOrPastCeiling(d32[p]) THEN d16[p] = 65535
              ELSE IsWholeMillimetres(d32[p], d16[p])

C3_Witness ==
    /\ cpc = "converted"
    /\ \E p, q \in DOMAIN d32 :
          /\ d32[p].kind = "finite" /\ AtOrPastCeiling(d32[p]) /\ d16[p] = 65535
          /\ ~AtOrPastCeiling(d32[q]) /\ d16[q] > 0 /\ d16[q] < 65535

\* C4 as stated: with geometry_query unconnected, the evaluation of each of
\* the five outputs fails, for every parent frame.
C4_Original == ~connected /\ eval.port # "none" => ~eval.out.ok

\* C4, amended: with geometry_query unconnected, the evaluation of the
\* color, 32-bit depth, 16-bit depth and label outputs fails for every parent
\* frame, and that of X_WB fails for every parent frame but the world frame;
\* with the world frame as parent X_WB evaluates to X_PB without the query.
\* No output is produced from a default geometry state.
C4_Unconnected ==
    ~connected =>
        /\ eval.port \in ImagePorts => ~eval.out.ok
        /\ eval.port = "X_WB" =>
              /\ eval.out.ok <=> parent_frame_id = world_frame_id
              /\ eval.out.ok => eval.out.value = PoseVector(X_PB)

C4_Witness ==
    /\ ~connected
    /\ eval.port = "X_WB"
    /\ eval.out.ok
    /\ parent_frame_id = world_frame_id
    /\ X_PB # Identity

\* C5 as stated: the value a held output shows at time zero is the camera's
\* output on the geometry state at time zero.
C5_Original ==
    status = "built" /\ connected /\ now = 0 =>
        \A s \in {"color_image", "depth_image_32f", "depth_image_16u"} :
            zoh_state[s] = InnerOutput(s, IF last_tick = 0 THEN tick_geom ELSE geom)

\* C5, amended: each held output (color, depth 32F, depth 16U) is built
\* holding a blank image of the camera's dimensions; once the tick at time
\* zero has been handled, and before any later tick, it equals the camera's
\* output on the geometry state that tick sampled at time zero.
C5_BlankThenSampledAtZero ==
    status = "built" =>
        /\ last_tick < 0 =>
              /\ zoh_state["color_image"]
                    = BlankImage(color_camera.width, color_camera.height)
              /\ zoh_state["depth_image_32f"]
                    = BlankDepth32F(depth_camera.width, depth_camera.height)
              /\ zoh_state["depth_image_16u"]
                    = BlankImage(depth_camera.width, depth_camera.height)
        /\ last_tick = 0 =>
              \A s \in {"color_image", "depth_image_32f", "depth_image_16u"} :
                  zoh_state[s] = InnerOutput(s, tick_geom)

C5_Witness ==
    /\ status = "built"
    /\ last_tick = 0
    /\ now > 0
    /\ \A s \in {"color_image", "depth_image_32f", "depth_image_16u"} :
          /\ zoh_state[s] # InnerOutput(s, geom)
          /\ zoh_state[s] # ModelValue(s)

\* C6: the X_WB output of the diagram is the camera's X_WB for the current
\* geometry state at every time, also strictly between two ticks and after
\* a geometry change, while the held images stay at what was last latched.
C6_PoseNotSampled ==
    status = "built" =>
        /\ eval.port = "X_WB" =>
              /\ eval.out.ok <=> (connected \/ parent_frame_id = world_frame_id)
              /\ eval.out.ok => eval.out.value = BodyWorldPose(geom)
        /\ \A s \in DOMAIN zoh_state \cap ImagePorts :
              zoh_state[s] = IF last_tick < 0 THEN ModelValue(s)
                             ELSE InnerOutput(s, tick_geom)

C6_Witness ==
    /\ status = "built"
    /\ eval.port = "X_WB"
    /\ eval.out.ok
    /\ parent_frame_id # world_frame_id
    /\ now % period # 0
    /\ last_tick >= 0
    /\ BodyWorldPose(geom) # BodyWorldPose(tick_geom)
    /\ zoh_state["color_image"] # InnerOutput("color_image", geom)

\* the sensor-body offset of the camera an image port renders with
OffsetOf(port) ==
    IF port \in {"color_image", "label_image"} THEN color_camera.X_BS
    ELSE depth_camera.X_BS

\* what a render call carries besides the pose
CallCarries(port) ==
    LET camera == IF port \in {"color_image", "label_image"} THEN color_camera
                  ELSE depth_camera
    IN  /\ eval.out.call.parent_frame = parent_frame_id
        /\ eval.out.call.camera.width = camera.width
        /\ eval.out.call.camera.height = camera.height
        /\ eval.out.call.camera.fov_y = camera.fov_y
        /\ eval.out.call.camera.renderer_name = camera.renderer_name
        /\ port \in {"color_image", "label_image"} =>
              eval.out.call.show_window = color_camera.show_window
        /\ port = "depth_image_32f" =>
              /\ eval.out.call.camera.z_near = depth_camera.min_depth
              /\ eval.out.call.camera.z_far = depth_camera.max_depth

RenderPorts == {"color_image", "depth_image_32f", "label_image"}

\* C7 as stated: the pose handed over is the body's world pose composed with
\* the offset: X_PB * X_offset under the world frame and
\* X_WF(parent_frame_id) * X_PB * X_offset under any other.
C7_Original ==
    eval.port \in RenderPorts /\ eval.out.ok =>
        eval.out.call.X_PC =
            Compose(IF parent_frame_id = world_frame_id THEN X_PB
                    ELSE Compose(geom.X_WF[parent_frame_id], X_PB),
                    OffsetOf(eval.port))

\* C7, amended: for each render output (color, 32-bit depth, label) the pose
\* handed over is X_PB * X_offset for every parent frame, the world frame or
\* not (color offset for color and label, depth offset for depth): a pose in
\* the parent frame, whose world pose is left to the geometry service; the
\* call also carries the camera spec and the parent frame id, and for color
\* and label the show-window flag.
C7_RenderCall ==
    eval.port \in RenderPorts /\ eval.out.ok =>
        /\ eval.out.call.X_PC = Compose(X_PB, OffsetOf(eval.port))
        /\ CallCarries(eval.port)

C7_Witness ==
    /\ eval.port = "color_image"
    /\ eval.out.ok
    /\ parent_frame_id # world_frame_id
    /\ geom.X_WF[parent_frame_id] # Identity
    /\ color_camera.X_BS # depth_camera.X_BS
    /\ color_camera.show_window
    /\ Compose(X_PB, color_camera.X_BS) # Compose(color_camera.X_BS, X_PB)

CorePorts == {"color_image", "depth_image_32f", "depth_image_16u", "X_WB"}

\* C8: a held label output is exported exactly when render_label_image is
\* true; it is then the output of a hold of its own, with the period of the
\* color and depth holds, latched as they are; the color, depth 32F, depth
\* 16U and X_WB outputs and the geometry_query input exist either way.
C8_LabelPort ==
    status = "built" =>
        /\ "label_image" \in DOMAIN exports <=> render_label_image
        /\ CorePorts \subseteq DOMAIN exports
        /\ "geometry_query" \in inputs
        /\ render_label_image =>
              /\ exports["label_image"] = [system |-> "zoh", port |-> "label_image"]
              /\ "label_image" \in DOMAIN zoh_period
              /\ \A s \in DOMAIN zoh_period : zoh_period[s] = period
              /\ last_tick >= 0 =>
                    zoh_state["label_image"] = InnerOutput("label_image", tick_geom)

C8_Witness ==
    /\ status = "built"
    /\ render_label_image
    /\ eval.port = "label_image"
    /\ eval.out.ok
    /\ last_tick > 0
    /\ eval.out.value = InnerOutput("label_image", tick_geom)
    /\ eval.out.value # InnerOutput("label_image", geom)

\* C9: a period <= 0 makes construction fail fatally: no diagram, no port,
\* no hold comes to exist, and nothing is ever evaluated.
C9_NonPositivePeriod ==
    period <= 0 /\ status # "sensor" /\ status # "convert" =>
        /\ status = "ctor_fatal"
        /\ DOMAIN exports = {}
        /\ DOMAIN zoh_state = {}
        /\ inputs = {}
        /\ eval = NoEval
        /\ last_tick = -1

C9_Witness == status = "ctor_fatal" /\ period <= 0 /\ render_label_image

\* the float nearest to m / 1000 is not below m / 1000
RoundedNotBelow(m) ==
    \/ m = 0
    \/ LET f == Float32OfMilli(m)
       IN  f.m * 125 >= m * Pow2(f.k - 3)

\* C10 as stated: converting m / 1000 again yields m.
C10_Original == cpc = "requantized" => d16_again = d16

\* C10, amended: for m = ConvertDepth32FTo16U(x), converting the float
\* nearest to m / 1000 yields m when that float is not below m / 1000 and
\* m - 1 when it is (m = 5: 0.005f < 0.005, and the result is 4).
C10_Requantize ==
    cpc = "requantized" =>
        \A p \in DOMAIN d16 :
            d16_again[p] = IF RoundedNotBelow(d16[p]) THEN d16[p] ELSE d16[p] - 1

C10_Witness ==
    /\ cpc = "requantized"
    /\ \E p, q \in DOMAIN d16 :
          /\ d16[p] > 0 /\ d16_again[p] = d16[p]
          /\ d16_again[q] = d16[q] - 1
          /\ ~AtOrPastCeiling(d32[q])

\* C11: in every state the discrete sensor reaches, from construction on and
\* after any interleaving of geometry changes, ticks and time advances, the
\* held 16-bit depth image is ConvertDepth32FTo16U of the held 32-bit depth
\* image, pixel by pixel: the two holds latch at the same ticks from the same
\* geometry state.
C11_HeldDepthsAgree ==
    status \in {"built", "eval_fatal"} =>
        /\ DOMAIN zoh_state["depth_image_16u"] = DOMAIN zoh_state["depth_image_32f"]
        /\ zoh_state["depth_image_16u"]
              = ConvertDepth32FTo16U(zoh_state["depth_image_32f"],
                                     zoh_state["depth_image_16u"])

C11_Witness ==
    /\ status = "built"
    /\ last_tick > 0
    /\ now > last_tick
    /\ zoh_state["depth_image_32f"] # InnerOutput("depth_image_32f", geom)
    /\ zoh_state["depth_image_16u"] # InnerOutput("depth_image_16u", geom)
    /\ \E p, q \in DOMAIN zoh_state["depth_image_32f"] :
          /\ AtOrPastCeiling(zoh_state["depth_image_32f"][p])
          /\ zoh_state["depth_image_16u"][p] = uint16_max
          /\ zoh_state["depth_image_16u"][q] > 0
          /\ zoh_state["depth_image_16u"][q] < uint16_max

=============================================================================
